---- MODULE Spec2Model ----
\* A model of two pieces of theseus:
\*   - BaspachoSparseSolver (theseus/optimizer/linear/baspacho_sparse_solver.py):
\*     constructor, reset (symbolic step) and solve (numeric step);
\*   - the kinematics models (theseus/embodied/kinematics/kinematics_model.py).
EXTENDS Integers, Sequences, FiniteSets, TLC

VARIABLES
    alive,                   \* a BaspachoSparseSolver instance has been constructed
    lin,                     \* self.linearization: its structure(), var_start_cols, var_dims, num_cols
    linearization,           \* class of self.linearization, "unset" before LinearSolver.__init__
    A_rowPtr,                \* self.A_rowPtr
    A_colInd,                \* self.A_colInd
    symbolic_decomposition,  \* self.symbolic_decomposition
    cuda_available,          \* torch.cuda.is_available()
    ext_error,               \* what importing theseus.extlib.baspacho_solver raises, if anything
    allocs,                  \* number of SymbolicDecomposition objects created so far
    last,                    \* the last call on the solver: arguments, error, what reached the numeric solve
    drm_model,               \* UrdfRobotModel.drm_model: the robot's link names and joint count
    fk                       \* the last forward_kinematics call: model, input, outcome

solverVars == <<alive, lin, linearization, A_rowPtr, A_colInd, symbolic_decomposition,
                cuda_available, ext_error, allocs, last>>
vars == <<alive, lin, linearization, A_rowPtr, A_colInd, symbolic_decomposition,
          cuda_available, ext_error, allocs, last, drm_model, fk>>

-----------------------------------------------------------------------------
\* Bounds of the model.

\* Largest number of Jacobian columns of an enumerated structure.
MaxCols == 3
\* Largest number of Jacobian rows of an enumerated structure.
MaxRows == 2
\* Largest number of SymbolicDecomposition objects created in one behaviour.
MaxAllocs == 3
\* Damping values are 0 .. MaxDamping.
MaxDamping == 2
\* Largest last dimension of a joint-state or pose value, and largest joint count.
MaxWidth == 2

-----------------------------------------------------------------------------
\* Values.

\* An attribute that was never assigned (reading it raises AttributeError).
Unset == [unset |-> TRUE]

IsSet(v) == v # Unset

\* torch.tensor(data, dtype=torch.int64).to(dev)
Tensor(data, dev) == [unset |-> FALSE, data |-> data, device |-> dev]

\* Optional[float] and Optional[Tuple]: None is the empty sequence.
None == << >>
Some(x) == <<x>>

NoError == [type |-> "none", text |-> "", cause_type |-> "", cause_msg |-> ""]

Devices == {"cpu", "cuda"}

\* The kinematics records before any call was made.
NoRobot == [link_names |-> {}, n_joints |-> 0]
NoFk == [model |-> ""]

-----------------------------------------------------------------------------
\* Small integer helpers.

RECURSIVE SeqSum(_)
SeqSum(s) == IF s = << >> THEN 0 ELSE Head(s) + SeqSum(Tail(s))

SetMin(S) == CHOOSE x \in S : \A y \in S : x <= y

RECURSIVE SortedSeq(_)
\* the elements of a finite set of integers, ascending
SortedSeq(S) == IF S = {} THEN << >> ELSE <<SetMin(S)>> \o SortedSeq(S \ {SetMin(S)})

RECURSIVE Flatten(_)
Flatten(ss) == IF ss = << >> THEN << >> ELSE Head(ss) \o Flatten(Tail(ss))

-----------------------------------------------------------------------------
\* The linearization as the solver reads it. Indices are 0-based as in the code;
\* a TLA+ sequence holding them is 1-based, so entry k of an array a is a[k + 1].
\*   row_ptr, col_ind : structure().row_ptr / .col_ind (CSR layout of the Jacobian)
\*   num_rows         : structure().num_rows
\*   var_start_cols, var_dims, num_cols : attributes of the linearization

\* var_start_cols of a linearization whose variables have tangent widths dims:
\* the running sum of the widths, starting at 0.
StartCols(dims) == [i \in 1..Len(dims) |-> SeqSum(SubSeq(dims, 1, i - 1))]

\* The linearization with variable widths dims whose Jacobian row r has its
\* non-zeros in the columns rows[r + 1] (column indices ascending within a row).
MkStructure(dims, rows) ==
    [ num_rows       |-> Len(rows),
      num_cols       |-> SeqSum(dims),
      row_ptr        |-> [k \in 1..Len(rows) + 1 |->
                             SeqSum([r \in 1..k - 1 |-> Cardinality(rows[r])])],
      col_ind        |-> Flatten([r \in 1..Len(rows) |-> SortedSeq(rows[r])]),
      var_start_cols |-> StartCols(dims),
      var_dims       |-> dims ]

RECURSIVE Compositions(_)
\* every sequence of widths >= 1 that sums to n
Compositions(n) ==
    IF n = 0 THEN {<< >>}
    ELSE UNION { { <<d>> \o c : c \in Compositions(n - d) } : d \in 1..n }

\* The Jacobians with n columns and 0..MaxRows rows: any set of columns per row.
RowSets(n) == UNION { [1..m -> SUBSET (0..n - 1)] : m \in 0..MaxRows }

\* The structures the solver life cycle is run on: one without rows, two that
\* share var_dims and differ in row_ptr/col_ind, one that shares row_ptr/col_ind
\* with the second and differs in var_start_cols/var_dims.
SampleStructures ==
    { MkStructure(<<1, 1>>, << >>),
      MkStructure(<<2, 1>>, << {0, 1}, {2} >>),
      MkStructure(<<2, 1>>, << {0, 1, 2}, {2} >>),
      MkStructure(<<1, 2>>, << {0, 1}, {2} >>) }

-----------------------------------------------------------------------------
\* reset: the block structure of AtA. A sparse matrix is the function from
\* (row, column) to its value; its stored entries are the non-zero values (every
\* stored value below is a positive count, so no stored entry is numerically 0).

NumVars(s) == Len(s.var_start_cols)

\* structure().mock_csc_transpose(): the num_cols x num_rows transpose of the
\* Jacobian's pattern, every stored entry 1 (repeated entries add up).
MockCscTranspose(s) ==
    [c \in 0..s.num_cols - 1, r \in 0..s.num_rows - 1 |->
        Cardinality({k \in s.row_ptr[r + 1]..s.row_ptr[r + 2] - 1 : s.col_ind[k + 1] = c})]

\* ToBlocks with var_start_cols alone as indptr: the rows are cut one variable
\* short, so every block ends where it starts.
ToBlocksNoLastCol(s) ==
    LET indptr == <<0>> \o s.var_start_cols
    IN  [i \in 0..NumVars(s) - 1, c \in 0..s.num_cols - 1 |->
            IF indptr[i + 1] <= c /\ c < indptr[i + 2] THEN 1 ELSE 0]

\* csr_matrix((ones(num_cols), arange(num_cols), var_start_cols + [num_cols]),
\*            (num_vars, num_cols)): row i stores a 1 in the columns
\* indptr[i] .. indptr[i + 1] - 1.
ToBlocks(s) ==
    LET indptr == s.var_start_cols \o <<s.num_cols>>
    IN  [i \in 0..NumVars(s) - 1, c \in 0..s.num_cols - 1 |->
            IF indptr[i + 1] <= c /\ c < indptr[i + 2] THEN 1 ELSE 0]

RECURSIVE Dot(_, _, _, _, _)
\* X[i, 0] * Y[0, j] + ... + X[i, k] * Y[k, j]
Dot(X, i, Y, j, k) == IF k < 0 THEN 0 ELSE X[i, k] * Y[k, j] + Dot(X, i, Y, j, k - 1)

\* X @ Y for X of shape n x m and Y of shape m x p
MatMul(X, n, m, Y, p) == [i \in 0..n - 1, j \in 0..p - 1 |-> Dot(X, i, Y, j, m - 1)]

\* X.T for X of shape n x m
Transpose(X, n, m) == [j \in 0..m - 1, i \in 0..n - 1 |-> X[i, j]]

\* block_At_mock = to_blocks @ At_mock
BlockAtMock(s) == MatMul(ToBlocks(s), NumVars(s), s.num_cols, MockCscTranspose(s), s.num_rows)

\* block_AtA_mock = (block_At_mock @ block_At_mock.T).tocsr()
BlockAtAMock(s) ==
    MatMul(BlockAtMock(s), NumVars(s), s.num_rows,
           Transpose(BlockAtMock(s), NumVars(s), s.num_rows), NumVars(s))

\* the stored column indices of row i of an n x n matrix, after sort_indices()
RowIndices(M, n, i) == SortedSeq({j \in 0..n - 1 : M[i, j] # 0})

\* block_AtA_mock.indptr
BlockStructPtrs(s) ==
    LET M == BlockAtAMock(s)
        n == NumVars(s)
    IN  [k \in 1..n + 1 |-> SeqSum([i \in 1..k - 1 |-> Len(RowIndices(M, n, i - 1))])]

\* block_AtA_mock.indices
BlockStructInds(s) ==
    LET M == BlockAtAMock(s)
        n == NumVars(s)
    IN  Flatten([i \in 1..n |-> RowIndices(M, n, i - 1)])

\* SymbolicDecomposition(param_size, block_struct_ptrs, block_struct_inds, dev):
\* the object is known by the arguments it was built from and by its identity.
SymbolicDecomposition(id, s, dev) ==
    [ unset             |-> FALSE,
      id                |-> id,
      param_size        |-> s.var_dims,
      block_struct_ptrs |-> BlockStructPtrs(s),
      block_struct_inds |-> BlockStructInds(s),
      device            |-> dev ]

-----------------------------------------------------------------------------
\* BaspachoSparseSolver.

\* Classes a caller may pass as linearization_cls ("None": the argument is left out).
LinearizationClasses == {"None", "SparseLinearization", "DenseLinearization"}

\* linearization_cls = linearization_cls or SparseLinearization
EffectiveLinearizationCls(cls) == IF cls = "None" THEN "SparseLinearization" ELSE cls

\* What importing theseus.extlib.baspacho_solver may raise.
ExtErrors ==
    { NoError,
      [type |-> "ImportError", text |-> "libbaspacho.so: cannot open shared object file",
       cause_type |-> "", cause_msg |-> ""],
      [type |-> "ModuleNotFoundError", text |-> "No module named 'theseus.extlib'",
       cause_type |-> "", cause_msg |-> ""] }

\* The solver's cached symbolic state no longer describes the linearization:
\* reset ran, and row_ptr, col_ind, var_dims or the block pattern that
\* var_start_cols induces have changed since.
Stale ==
    /\ IsSet(A_rowPtr) /\ IsSet(A_colInd) /\ IsSet(symbolic_decomposition)
    /\ \/ A_rowPtr.data # lin.row_ptr
       \/ A_colInd.data # lin.col_ind
       \/ symbolic_decomposition.param_size # lin.var_dims
       \/ symbolic_decomposition.block_struct_ptrs # BlockStructPtrs(lin)
       \/ symbolic_decomposition.block_struct_inds # BlockStructInds(lin)

\* ResetError without the device check: reset(dev = "cuda") on a machine
\* without CUDA goes on as if the device were there.
ResetErrorNoDeviceCheck(dev) ==
    IF ext_error # NoError
    THEN [type |-> "RuntimeError",
          text |-> "Theseus C++ extension cannot be loaded.",
          cause_type |-> ext_error.type, cause_msg |-> ext_error.text]
    ELSE NoError

\* The error reset(dev) raises before it assigns anything, NoError if none:
\* first the device check, then the import of the extension.
ResetError(dev) ==
    IF dev = "cuda" /\ ~cuda_available
    THEN [type |-> "RuntimeError",
          text |-> "Cuda not available, BaspachoSparseSolver cannot be used",
          cause_type |-> "", cause_msg |-> ""]
    ELSE IF ext_error # NoError
    THEN [type |-> "RuntimeError",
          text |-> "Theseus C++ extension cannot be loaded.",
          cause_type |-> ext_error.type, cause_msg |-> ext_error.text]
    ELSE NoError

\* ResetRowPtr that extends the array a former reset left instead of replacing it.
ResetRowPtrAppending(dev) ==
    IF IsSet(A_rowPtr) THEN Tensor(A_rowPtr.data \o lin.row_ptr, dev) ELSE Tensor(lin.row_ptr, dev)

\* self.A_rowPtr = torch.tensor(structure().row_ptr, dtype=torch.int64).to(dev)
ResetRowPtr(dev) == Tensor(lin.row_ptr, dev)

\* self.A_colInd = torch.tensor(structure().col_ind, dtype=torch.int64).to(dev)
ResetColInd(dev) == Tensor(lin.col_ind, dev)

\* self.symbolic_decomposition = SymbolicDecomposition(...)
ResetSymbolic(dev) == SymbolicDecomposition(allocs + 1, lin, dev)

\* DampingAlphaBeta with the two branches of the conditional exchanged.
DampingAlphaBetaSwapped(damping, ellipsoidal_damping, damping_eps) ==
    IF damping = None
    THEN None
    ELSE Some(IF ellipsoidal_damping
              THEN <<0, damping[1]>>
              ELSE <<damping[1], damping_eps>>)

\* damping_alpha_beta of solve
DampingAlphaBeta(damping, ellipsoidal_damping, damping_eps) ==
    IF damping = None
    THEN None
    ELSE Some(IF ellipsoidal_damping
              THEN <<damping[1], damping_eps>>
              ELSE <<0, damping[1]>>)

\* Nothing reached BaspachoSolveFunction.apply.
NoCall == [called |-> FALSE]

\* The record of a call; a call leaves the fields it has no use for blank.
\*   call, cls, dev, damping, ellipsoidal_damping, damping_eps : the call and its arguments
\*   error         : the exception that left the call, NoError if it returned
\*   base_init_ran : LinearSolver.__init__ was entered
\*   reset_called  : reset was entered
\*   applied       : the arguments BaspachoSolveFunction.apply was entered with
\*   prev_call, prev_dev, prev_ok : the call before this one, its device, whether it returned
BlankCall ==
    [ call |-> "", cls |-> "", dev |-> "", damping |-> None, ellipsoidal_damping |-> FALSE,
      damping_eps |-> 0, error |-> NoError, base_init_ran |-> FALSE,
      reset_called |-> FALSE, applied |-> NoCall,
      prev_call |-> "", prev_dev |-> "", prev_ok |-> FALSE ]

\* The record of a call named name that follows the call recorded in last.
Call(name) ==
    [BlankCall EXCEPT !.call = name, !.prev_call = last.call, !.prev_dev = last.dev,
                      !.prev_ok = (last.error = NoError)]

\* __init__(objective, linearization_cls, ..., dev)
Construct(cls, dev) ==
    /\ ~alive
    /\ LET call == [Call("__init__") EXCEPT !.cls = cls, !.dev = dev]
       IN  IF EffectiveLinearizationCls(cls) # "SparseLinearization"
           THEN \* the message of the RuntimeError reads self.linearization, which
                \* LinearSolver.__init__ has not assigned yet
                /\ last' = [call EXCEPT !.error =
                              [type |-> "AttributeError",
                               text |-> "'BaspachoSparseSolver' object has no attribute 'linearization'",
                               cause_type |-> "", cause_msg |-> ""]]
                /\ UNCHANGED <<alive, linearization, A_rowPtr, A_colInd,
                               symbolic_decomposition, allocs>>
           ELSE IF lin.num_rows = 0
           THEN /\ alive' = TRUE
                /\ linearization' = EffectiveLinearizationCls(cls)
                /\ last' = [call EXCEPT !.base_init_ran = TRUE]
                /\ UNCHANGED <<A_rowPtr, A_colInd, symbolic_decomposition, allocs>>
           ELSE IF ResetError(dev) # NoError
           THEN \* reset raised: the exception leaves __init__, no instance results
                /\ last' = [call EXCEPT !.base_init_ran = TRUE, !.reset_called = TRUE,
                                        !.error = ResetError(dev)]
                /\ UNCHANGED <<alive, linearization, A_rowPtr, A_colInd,
                               symbolic_decomposition, allocs>>
           ELSE /\ alive' = TRUE
                /\ linearization' = EffectiveLinearizationCls(cls)
                /\ A_rowPtr' = ResetRowPtr(dev)
                /\ A_colInd' = ResetColInd(dev)
                /\ symbolic_decomposition' = ResetSymbolic(dev)
                /\ allocs' = allocs + 1
                /\ last' = [call EXCEPT !.base_init_ran = TRUE, !.reset_called = TRUE]
    /\ UNCHANGED <<lin, cuda_available, ext_error, drm_model, fk>>

\* reset(dev)
Reset(dev) ==
    /\ alive
    /\ ResetError(dev) = NoError => allocs < MaxAllocs
    /\ LET call == [Call("reset") EXCEPT !.dev = dev, !.reset_called = TRUE]
       IN  IF ResetError(dev) # NoError
           THEN /\ last' = [call EXCEPT !.error = ResetError(dev)]
                /\ UNCHANGED <<A_rowPtr, A_colInd, symbolic_decomposition, allocs>>
           ELSE /\ A_rowPtr' = ResetRowPtr(dev)
                /\ A_colInd' = ResetColInd(dev)
                /\ symbolic_decomposition' = ResetSymbolic(dev)
                /\ allocs' = allocs + 1
                /\ last' = call
    /\ UNCHANGED <<alive, lin, linearization, cuda_available, ext_error, drm_model, fk>>

\* SolveError of a solver whose __init__ presets the three attributes to None:
\* reading them never raises.
SolveErrorAttrsPreset ==
    IF linearization # "SparseLinearization"
    THEN [type |-> "RuntimeError",
          text |-> "CholmodSparseSolver only works with theseus.optimizer.SparseLinearization.",
          cause_type |-> "", cause_msg |-> ""]
    ELSE NoError

\* SolveError of a solver that compares its cached arrays with the linearization
\* and refuses a stale decomposition.
SolveErrorStaleChecked ==
    IF linearization # "SparseLinearization"
    THEN [type |-> "RuntimeError",
          text |-> "CholmodSparseSolver only works with theseus.optimizer.SparseLinearization.",
          cause_type |-> "", cause_msg |-> ""]
    ELSE IF ~IsSet(A_rowPtr) \/ ~IsSet(A_colInd) \/ ~IsSet(symbolic_decomposition)
    THEN [type |-> "AttributeError",
          text |-> "'BaspachoSparseSolver' object has no attribute",
          cause_type |-> "", cause_msg |-> ""]
    ELSE IF Stale
    THEN [type |-> "StaleStructureError", text |-> "", cause_type |-> "", cause_msg |-> ""]
    ELSE NoError

\* The error solve raises before BaspachoSolveFunction.apply is entered: the
\* isinstance check, then the reads of the three attributes reset assigns.
SolveError ==
    IF linearization # "SparseLinearization"
    THEN [type |-> "RuntimeError",
          text |-> "CholmodSparseSolver only works with theseus.optimizer.SparseLinearization.",
          cause_type |-> "", cause_msg |-> ""]
    ELSE IF ~IsSet(A_rowPtr) \/ ~IsSet(A_colInd) \/ ~IsSet(symbolic_decomposition)
    THEN [type |-> "AttributeError",
          text |-> "'BaspachoSparseSolver' object has no attribute",
          cause_type |-> "", cause_msg |-> ""]
    ELSE NoError

\* SolveApply of a solve that rebuilds the symbolic decomposition for every call.
SolveApplyRebuilding(damping, ellipsoidal_damping, damping_eps) ==
    [ called                 |-> TRUE,
      structure              |-> lin,
      A_rowPtr               |-> A_rowPtr,
      A_colInd               |-> A_colInd,
      symbolic_decomposition |-> SymbolicDecomposition(0, lin, A_rowPtr.device),
      damping_alpha_beta     |-> DampingAlphaBeta(damping, ellipsoidal_damping, damping_eps) ]

\* The arguments solve hands to BaspachoSolveFunction.apply.
SolveApply(damping, ellipsoidal_damping, damping_eps) ==
    [ called                 |-> TRUE,
      structure              |-> lin,
      A_rowPtr               |-> A_rowPtr,
      A_colInd               |-> A_colInd,
      symbolic_decomposition |-> symbolic_decomposition,
      damping_alpha_beta     |-> DampingAlphaBeta(damping, ellipsoidal_damping, damping_eps) ]

\* solve(damping, ellipsoidal_damping, damping_eps)
Solve(damping, ellipsoidal_damping, damping_eps) ==
    /\ alive
    /\ LET call == [Call("solve") EXCEPT !.damping = damping,
                                     !.ellipsoidal_damping = ellipsoidal_damping,
                                     !.damping_eps = damping_eps]
       IN  IF SolveError # NoError
           THEN last' = [call EXCEPT !.error = SolveError]
           ELSE last' = [call EXCEPT !.applied =
                            SolveApply(damping, ellipsoidal_damping, damping_eps)]
    /\ UNCHANGED <<alive, lin, linearization, A_rowPtr, A_colInd, symbolic_decomposition,
                   cuda_available, ext_error, allocs, drm_model, fk>>

\* The objective's variables or residuals change: the linearization reports
\* another sparsity pattern. The solver is not told.
ChangeStructure(s) ==
    /\ alive
    /\ s # lin
    /\ lin' = s
    /\ last' = Call("change_structure")
    /\ UNCHANGED <<alive, linearization, A_rowPtr, A_colInd, symbolic_decomposition,
                   cuda_available, ext_error, allocs, drm_model, fk>>

\* damping arguments of solve; damping_eps in units of 1e-8
DampingEpsDefault == 1
Dampings == {None} \cup { Some(d) : d \in 0..MaxDamping }
DampingEpsValues == {DampingEpsDefault, MaxDamping + 1}


Init ==
    /\ alive = FALSE
    /\ lin \in SampleStructures
    /\ linearization = "unset"
    /\ A_rowPtr = Unset
    /\ A_colInd = Unset
    /\ symbolic_decomposition = Unset
    /\ cuda_available \in BOOLEAN
    /\ ext_error \in ExtErrors
    /\ allocs = 0
    /\ last = BlankCall
    /\ drm_model = NoRobot
    /\ fk = NoFk

Next ==
    \/ \E cls \in LinearizationClasses, dev \in Devices : Construct(cls, dev)
    \/ \E dev \in Devices : Reset(dev)
    \/ \E d \in Dampings, e \in BOOLEAN, eps \in DampingEpsValues : Solve(d, e, eps)
    \/ \E s \in SampleStructures : ChangeStructure(s)

Spec == Init /\ [][Next]_vars

-----------------------------------------------------------------------------
\* Kinematics models.

\* Classes of the values a caller may pass as robot_pose / joint_states, and
\* the base class of each (torch.nn.Parameter derives from torch.Tensor; Point2
\* and Point3 derive from th.Vector).
InputClasses == {"Tensor", "Parameter", "Vector", "Point2", "Point3"}
BaseOf(cls) ==
    CASE cls = "Parameter" -> "Tensor"
      [] cls = "Point2"    -> "Vector"
      [] cls = "Point3"    -> "Vector"
      [] OTHER             -> "object"

\* isinstance(x, cls) for x of class c
IsInstance(c, cls) == c = cls \/ BaseOf(c) = cls

\* A value of class cls whose last dimension holds data: x.shape[-1] and, for
\* a th.Vector, x.dof() are Len(data); x.data of a th.Vector is data.
Value(cls, data) == [class |-> cls, data |-> data]

\* The values of the model: tensors and vectors of width 1..MaxWidth with entries
\* 0 or 1, Point2 of width 2, Point3 of width 3.
Inputs ==
    { Value(cls, data) :
        cls \in {"Tensor", "Parameter", "Vector"},
        data \in UNION { [1..n -> {0, 1}] : n \in 1..MaxWidth } }
    \cup { Value("Point2", data) : data \in [1..2 -> {0, 1}] }
    \cup { Value("Point3", data) : data \in [1..3 -> {0, 1}] }

NoMapping == [l \in {} |-> 0]

\* IdentityModel.forward_kinematics(robot_pose)
IdentityForwardKinematics(robot_pose) ==
    /\ fk' = IF IsInstance(robot_pose.class, "Point2") \/ IsInstance(robot_pose.class, "Vector")
             THEN IF Len(robot_pose.data) = 2
                  THEN [model |-> "identity", input |-> robot_pose, drm_out |-> NoMapping,
                        drm_input |-> << >>, returned |-> TRUE, error |-> "",
                        mapping |-> [l \in {"state"} |-> robot_pose]]
                  ELSE [model |-> "identity", input |-> robot_pose, drm_out |-> NoMapping,
                        drm_input |-> << >>, returned |-> FALSE, error |-> "AssertionError",
                        mapping |-> NoMapping]
             ELSE [model |-> "identity", input |-> robot_pose, drm_out |-> NoMapping,
                   drm_input |-> << >>, returned |-> FALSE, error |-> "NotImplementedError",
                   mapping |-> NoMapping]
    /\ UNCHANGED <<solverVars, drm_model>>

\* quat_converted with the components left in DRM's order
QuatConvertedKeepXyzw(quat) == quat

\* quat_converted = torch.cat([quat[..., 3:], quat[..., :3]], dim=-1)
QuatConverted(quat) == SubSeq(quat, 4, 4) \o SubSeq(quat, 1, 3)

\* the square of torch.linalg.norm(q, dim=-1)
NormSquared(q) == SeqSum([k \in 1..Len(q) |-> q[k] * q[k]])

\* quat_normalized = quat_converted / norm(quat_converted): the quotient is kept
\* as its numerator and the square of its denominator.
PostprocessQuaternion(quat) ==
    [ num |-> QuatConverted(quat), norm_squared |-> NormSquared(QuatConverted(quat)) ]

\* th.SE3(x_y_z_quaternion=torch.cat([pos, quat_processed], dim=-1))
SE3FromXyzQuaternion(pos, quat_processed) ==
    [ class |-> "SE3", xyz |-> pos, quaternion |-> quat_processed ]

\* What drm_model.compute_forward_kinematics may return for a link: a position
\* and a non-zero quaternion in (x, y, z, w) order.
DrmPositions == { <<0, 0, 0>>, <<1, 2, 3>> }
DrmQuaternions == { <<0, 0, 0, 1>>, <<1, 2, 3, 4>>, <<0, 3, 0, 4>> }
DrmPoses == { [pos |-> p, quat |-> q] : p \in DrmPositions, q \in DrmQuaternions }

\* UrdfRobotModel.forward_kinematics(joint_states); drm_out is what
\* compute_forward_kinematics returns for each link.
UrdfForwardKinematics(joint_states, drm_out) ==
    /\ drm_model # NoRobot
    /\ DOMAIN drm_out = drm_model.link_names
    /\ fk' = IF Len(joint_states.data) # drm_model.n_joints
             THEN [model |-> "urdf", input |-> joint_states, drm_out |-> drm_out,
                   drm_input |-> << >>, returned |-> FALSE, error |-> "AssertionError",
                   mapping |-> NoMapping]
             ELSE IF joint_states.class \notin {"Tensor", "Vector"}
             THEN [model |-> "urdf", input |-> joint_states, drm_out |-> drm_out,
                   drm_input |-> << >>, returned |-> FALSE, error |-> "Exception",
                   mapping |-> NoMapping]
             ELSE [model |-> "urdf", input |-> joint_states, drm_out |-> drm_out,
                   drm_input |-> joint_states.data, returned |-> TRUE, error |-> "",
                   mapping |-> [l \in drm_model.link_names |->
                                   SE3FromXyzQuaternion(drm_out[l].pos,
                                       PostprocessQuaternion(drm_out[l].quat))]]
    /\ UNCHANGED <<solverVars, drm_model>>

\* The robots of the model: one or two links, 1..MaxWidth joints.
Robots ==
    { [link_names |-> ls, n_joints |-> n] :
        ls \in {{"base"}, {"base", "tip"}}, n \in 1..MaxWidth }

InitKin ==
    /\ alive = FALSE
    /\ lin = MkStructure(<<1>>, << >>)
    /\ linearization = "unset"
    /\ A_rowPtr = Unset
    /\ A_colInd = Unset
    /\ symbolic_decomposition = Unset
    /\ cuda_available = FALSE
    /\ ext_error = NoError
    /\ allocs = 0
    /\ last = BlankCall
    /\ drm_model \in Robots
    /\ fk = NoFk

NextKin ==
    \/ \E x \in Inputs : IdentityForwardKinematics(x)
    \/ \E x \in Inputs : \E out \in [drm_model.link_names -> DrmPoses] :
          UrdfForwardKinematics(x, out)

SpecKin == InitKin /\ [][NextKin]_vars

-----------------------------------------------------------------------------
\* The symbolic step alone, over every linearization with 1..MaxCols columns,
\* 0..MaxRows rows, any split of the columns into variables and any set of
\* columns per row: a solver is built on the cpu and reset again.
InitPattern ==
    /\ alive = FALSE
    /\ \E n \in 1..MaxCols : \E dims \in Compositions(n) : \E rows \in RowSets(n) :
          lin = MkStructure(dims, rows)
    /\ linearization = "unset"
    /\ A_rowPtr = Unset
    /\ A_colInd = Unset
    /\ symbolic_decomposition = Unset
    /\ cuda_available = FALSE
    /\ ext_error = NoError
    /\ allocs = 0
    /\ last = BlankCall
    /\ drm_model = NoRobot
    /\ fk = NoFk

NextPattern ==
    \/ Construct("None", "cpu")
    \/ Reset("cpu")

SpecPattern == InitPattern /\ [][NextPattern]_vars

-----------------------------------------------------------------------------
\* Properties of BaspachoSparseSolver, checked under Spec.

\* C1: whenever solve enters the numeric solve, A_rowPtr, A_colInd and
\* symbolic_decomposition it passes are set, and the symbolic decomposition is
\* one a reset created; a solver built over a structure without rows, which
\* skipped reset, never enters the numeric solve with them unset.
NumericSolveOnlyAfterReset ==
    last.applied.called =>
        /\ IsSet(last.applied.A_rowPtr)
        /\ IsSet(last.applied.A_colInd)
        /\ IsSet(last.applied.symbolic_decomposition)
        /\ last.applied.symbolic_decomposition.id \in 1..allocs

\* solve on a solver whose constructor skipped reset (no rows) was refused.
SolveBeforeResetRefused ==
    /\ alive
    /\ last.call = "solve"
    /\ last.prev_call = "__init__"
    /\ ~IsSet(symbolic_decomposition)
    /\ last.error.type = "AttributeError"
    /\ ~last.applied.called

\* C2 as claimed: a solve against a stale decomposition is rejected with a
\* StaleStructureError and the numeric solve is not entered.
StaleSolveRejected ==
    (last.call = "solve" /\ Stale) =>
        /\ last.error.type = "StaleStructureError"
        /\ ~last.applied.called

\* C2 as the code has it: a solve against a stale decomposition raises nothing;
\* it enters the numeric solve with the current structure() and the cached
\* A_rowPtr, A_colInd and symbolic_decomposition.
StaleSolveProceeds ==
    (last.call = "solve" /\ Stale) =>
        /\ last.error = NoError
        /\ last.applied.called
        /\ last.applied.structure = lin
        /\ last.applied.A_rowPtr = A_rowPtr
        /\ last.applied.A_colInd = A_colInd
        /\ last.applied.symbolic_decomposition = symbolic_decomposition

\* a solve went through right after the structure changed under a decomposition
StaleSolveHappened ==
    /\ last.call = "solve"
    /\ last.prev_call = "change_structure"
    /\ Stale
    /\ last.applied.called
    /\ last.applied.A_rowPtr.data # lin.row_ptr

\* C3: a reset (called directly or by the constructor) for dev = "cuda" without
\* CUDA, or with the extension failing to load, raises; the device is checked
\* first; the backend error names the type and message of the import's
\* exception; A_rowPtr, A_colInd and symbolic_decomposition keep their values and
\* no numeric solve is entered. A reset that returns has put all three on dev.
ResetFailsClean ==
    [][ last'.reset_called =>
          /\ (last'.dev = "cuda" /\ ~cuda_available) =>
                /\ last'.error.type = "RuntimeError"
                /\ last'.error.text = "Cuda not available, BaspachoSparseSolver cannot be used"
          /\ (~(last'.dev = "cuda" /\ ~cuda_available) /\ ext_error # NoError) =>
                /\ last'.error.type = "RuntimeError"
                /\ last'.error.cause_type = ext_error.type
                /\ last'.error.cause_msg = ext_error.text
          /\ last'.error # NoError =>
                /\ UNCHANGED <<A_rowPtr, A_colInd, symbolic_decomposition>>
                /\ ~last'.applied.called
          /\ last'.error = NoError =>
                /\ A_rowPtr'.device = last'.dev
                /\ A_colInd'.device = last'.dev
                /\ symbolic_decomposition'.device = last'.dev
      ]_vars

\* reset("cuda") failed for want of CUDA on a solver that holds a decomposition
ResetRefusedOnReadySolver ==
    /\ last.call = "reset"
    /\ last.dev = "cuda"
    /\ ~cuda_available
    /\ last.error.type = "RuntimeError"
    /\ IsSet(symbolic_decomposition)
    /\ symbolic_decomposition.device = "cpu"

\* C4: the (alpha, beta) pair solve hands to the numeric solve is None for
\* damping = None, (damping, damping_eps) for ellipsoidal damping and
\* (0.0, damping) otherwise, whatever calls came before.
DampingMapping ==
    (last.call = "solve" /\ last.applied.called) =>
        /\ last.damping = None => last.applied.damping_alpha_beta = None
        /\ (last.damping # None /\ last.ellipsoidal_damping) =>
              last.applied.damping_alpha_beta = <<<<last.damping[1], last.damping_eps>>>>
        /\ (last.damping # None /\ ~last.ellipsoidal_damping) =>
              last.applied.damping_alpha_beta = <<<<0, last.damping[1]>>>>

\* a plain-damping solve followed another call and passed (0.0, damping)
PlainDampingSolved ==
    /\ last.call = "solve"
    /\ last.prev_call = "solve"
    /\ last.damping = <<MaxDamping>>
    /\ ~last.ellipsoidal_damping
    /\ last.damping_eps = DampingEpsDefault
    /\ last.applied.called
    /\ last.applied.damping_alpha_beta = <<<<0, MaxDamping>>>>

\* C6: a solve call leaves symbolic_decomposition, A_rowPtr and A_colInd as
\* they are and hands the numeric solve the very decomposition object the solver
\* holds; symbolic_decomposition changes only in a step that ran reset.
SolveIsNumericOnly ==
    [][ /\ last'.call = "solve" =>
              /\ UNCHANGED <<symbolic_decomposition, A_rowPtr, A_colInd>>
              /\ last'.applied.called =>
                    last'.applied.symbolic_decomposition = symbolic_decomposition
        /\ symbolic_decomposition' # symbolic_decomposition => last'.reset_called
      ]_vars

\* two solves in a row went through on the decomposition of the second reset
SolvedTwiceOnSameDecomposition ==
    /\ last.call = "solve"
    /\ last.prev_call = "solve"
    /\ last.prev_ok
    /\ last.applied.called
    /\ last.applied.symbolic_decomposition.id = 2
    /\ symbolic_decomposition.id = 2

\* C8: a reset that follows a reset (or a constructor that ran reset) for the
\* same device, the structure not having changed in between, leaves A_rowPtr and
\* A_colInd equal and builds a SymbolicDecomposition from equal parameter
\* sizes, indptr and indices.
ResetIdempotent ==
    [][ ( /\ last'.call = "reset" /\ last'.error = NoError
          /\ allocs' = allocs + 1
          /\ last.reset_called /\ last.error = NoError
          /\ last.dev = last'.dev
          /\ lin' = lin )
        => /\ A_rowPtr' = A_rowPtr
           /\ A_colInd' = A_colInd
           /\ symbolic_decomposition'.param_size = symbolic_decomposition.param_size
           /\ symbolic_decomposition'.block_struct_ptrs = symbolic_decomposition.block_struct_ptrs
           /\ symbolic_decomposition'.block_struct_inds = symbolic_decomposition.block_struct_inds
           /\ symbolic_decomposition'.device = symbolic_decomposition.device
      ]_vars

\* a reset returned right after a reset for the same device had returned
ResetTwiceInARow ==
    /\ last.call = "reset"
    /\ last.error = NoError
    /\ last.prev_call = "reset"
    /\ last.prev_ok
    /\ last.prev_dev = last.dev
    /\ lin.num_rows > 0
    /\ symbolic_decomposition.id >= 2

\* C9: a constructor given a linearization_cls other than SparseLinearization
\* raises a RuntimeError before LinearSolver.__init__ and before reset; with
\* None or SparseLinearization it goes on and calls reset exactly when the
\* structure has rows.
ConstructorChecksLinearizationCls ==
    last.call = "__init__" =>
        IF EffectiveLinearizationCls(last.cls) # "SparseLinearization"
        THEN /\ last.error.type = "RuntimeError"
             /\ ~last.base_init_ran
             /\ ~last.reset_called
        ELSE /\ last.base_init_ran
             /\ last.reset_called <=> (lin.num_rows # 0)

-----------------------------------------------------------------------------
\* The block pattern of AtA, checked under SpecPattern.

\* the columns variable i owns: var_start_cols[i] up to the next variable's
\* start, or up to num_cols for the last variable
VarCols(s, i) ==
    { c \in 0..s.num_cols - 1 :
        /\ s.var_start_cols[i + 1] <= c
        /\ c < (IF i + 1 < NumVars(s) THEN s.var_start_cols[i + 2] ELSE s.num_cols) }

\* the columns in which Jacobian row r has a non-zero
RowCols(s, r) == { s.col_ind[k + 1] : k \in s.row_ptr[r + 1]..s.row_ptr[r + 2] - 1 }

\* variables i and j have a non-zero in a common row
CoOccur(s, i, j) ==
    \E r \in 0..s.num_rows - 1 :
        /\ RowCols(s, r) \cap VarCols(s, i) # {}
        /\ RowCols(s, r) \cap VarCols(s, j) # {}

\* block row i of the pattern a SymbolicDecomposition was built from
PatternRow(sd, i) ==
    SubSeq(sd.block_struct_inds, sd.block_struct_ptrs[i + 1] + 1, sd.block_struct_ptrs[i + 2])

\* C5: the block pattern reset passes to SymbolicDecomposition holds (i, j)
\* exactly when variables i and j have a non-zero in a common Jacobian row; it
\* is symmetric, and each block row is strictly ascending within 0..num_vars - 1.
BlockPatternIsCoOccurrence ==
    IsSet(symbolic_decomposition) =>
        LET sd == symbolic_decomposition
            n  == NumVars(lin)
            In(i, j) == \E k \in 1..Len(PatternRow(sd, i)) : PatternRow(sd, i)[k] = j
        IN  /\ Len(sd.block_struct_ptrs) = n + 1
            /\ sd.block_struct_ptrs[1] = 0
            /\ sd.block_struct_ptrs[n + 1] = Len(sd.block_struct_inds)
            /\ \A i \in 0..n - 1 : sd.block_struct_ptrs[i + 1] <= sd.block_struct_ptrs[i + 2]
            /\ \A i, j \in 0..n - 1 : In(i, j) <=> CoOccur(lin, i, j)
            /\ \A i, j \in 0..n - 1 : In(i, j) <=> In(j, i)
            /\ \A i \in 0..n - 1 :
                  /\ \A k \in 1..Len(PatternRow(sd, i)) : PatternRow(sd, i)[k] \in 0..n - 1
                  /\ \A k \in 1..Len(PatternRow(sd, i)) - 1 :
                        PatternRow(sd, i)[k] < PatternRow(sd, i)[k + 1]

\* a decomposition was built for three variables of which the first and the
\* last share a row and the middle one shares none with either
PatternWithGap ==
    /\ IsSet(symbolic_decomposition)
    /\ NumVars(lin) = 3
    /\ CoOccur(lin, 0, 2)
    /\ ~CoOccur(lin, 0, 1)
    /\ ~CoOccur(lin, 1, 2)
    /\ CoOccur(lin, 1, 1)
    /\ symbolic_decomposition.block_struct_inds = <<0, 2, 1, 0, 2>>

-----------------------------------------------------------------------------
\* The kinematics models, checked under SpecKin.

\* What the claim asks of a call that returns the poses of a robot: one SE3
\* pose per link name, built from the link's position and its quaternion
\* reordered from (x, y, z, w) to (w, x, y, z) and scaled to unit norm.
ReturnedLinkPoses ==
    /\ fk.returned
    /\ DOMAIN fk.mapping = drm_model.link_names
    /\ \A l \in drm_model.link_names :
          LET x == fk.drm_out[l].quat[1]
              y == fk.drm_out[l].quat[2]
              z == fk.drm_out[l].quat[3]
              w == fk.drm_out[l].quat[4]
              q == fk.mapping[l].quaternion
          IN  /\ fk.mapping[l].class = "SE3"
              /\ fk.mapping[l].xyz = fk.drm_out[l].pos
              /\ q.num = <<w, x, y, z>>
              /\ q.norm_squared > 0
              /\ q.num[1] * q.num[1] + q.num[2] * q.num[2]
                   + q.num[3] * q.num[3] + q.num[4] * q.num[4] = q.norm_squared

\* What the claim asks of an IdentityModel call that returns: {"state": pose}
\* with the input pose itself.
ReturnedStatePose ==
    /\ fk.returned
    /\ DOMAIN fk.mapping = {"state"}
    /\ fk.mapping["state"] = fk.input

\* C10 as claimed, a value's type being its class: UrdfRobotModel returns the
\* link poses for a torch.Tensor or th.Vector of the right last dimension and
\* rejects every other type; IdentityModel returns {"state": pose} for a
\* Point2 or a Vector of dof 2 and raises NotImplementedError for every other
\* type.
ForwardKinematicsAsClaimed ==
    /\ (fk.model = "urdf" /\ fk.input.class \in {"Tensor", "Vector"}
            /\ Len(fk.input.data) = drm_model.n_joints) => ReturnedLinkPoses
    /\ (fk.model = "urdf" /\ fk.input.class \notin {"Tensor", "Vector"}) =>
          /\ ~fk.returned
          /\ fk.error # ""
          /\ fk.mapping = NoMapping
    /\ (fk.model = "identity" /\ fk.input.class \in {"Point2", "Vector"}
            /\ Len(fk.input.data) = 2) => ReturnedStatePose
    /\ (fk.model = "identity" /\ fk.input.class \notin {"Point2", "Vector"}) =>
          /\ ~fk.returned
          /\ fk.error = "NotImplementedError"

\* C10 as claimed, a value of a derived class being of the type of its base
\* (torch.nn.Parameter a torch.Tensor; Point2 and Point3 a th.Vector): the
\* other reading of the claim, which the code does not meet either.
ForwardKinematicsAsClaimedByInstance ==
    /\ (fk.model = "urdf" /\ fk.input.class \in {"Tensor", "Parameter", "Vector", "Point2", "Point3"}
            /\ Len(fk.input.data) = drm_model.n_joints) => ReturnedLinkPoses
    /\ (fk.model = "identity" /\ fk.input.class \in {"Vector", "Point2", "Point3"}
            /\ Len(fk.input.data) = 2) => ReturnedStatePose
    /\ (fk.model = "identity" /\ fk.input.class \notin {"Vector", "Point2", "Point3"}) =>
          /\ ~fk.returned
          /\ fk.error = "NotImplementedError"

\* C10 as the code has it. UrdfRobotModel.forward_kinematics returns the link
\* poses for a value whose class is exactly torch.Tensor or th.Vector and whose
\* last dimension is the joint count; a value of any other class, derived
\* classes included, raises and returns nothing. IdentityModel.forward_kinematics
\* returns {"state": pose} for an instance of th.Vector (Point2 and Point3
\* included) of dof 2, raises AssertionError for an instance of th.Vector of
\* another dof, and raises NotImplementedError for a value that is no instance
\* of th.Vector.
ForwardKinematicsContract ==
    /\ (fk.model = "urdf" /\ fk.input.class \in {"Tensor", "Vector"}
            /\ Len(fk.input.data) = drm_model.n_joints) =>
          /\ ReturnedLinkPoses
          /\ fk.drm_input = fk.input.data
    /\ (fk.model = "urdf" /\ fk.input.class \notin {"Tensor", "Vector"}) =>
          /\ ~fk.returned
          /\ fk.error \in {"AssertionError", "Exception"}
          /\ fk.error = "Exception" <=> Len(fk.input.data) = drm_model.n_joints
          /\ fk.mapping = NoMapping
    /\ (fk.model = "identity" /\ fk.input.class \in {"Vector", "Point2", "Point3"}
            /\ Len(fk.input.data) = 2) => ReturnedStatePose
    /\ (fk.model = "identity" /\ fk.input.class \in {"Vector", "Point2", "Point3"}
            /\ Len(fk.input.data) # 2) =>
          /\ ~fk.returned
          /\ fk.error = "AssertionError"
    /\ (fk.model = "identity" /\ fk.input.class \notin {"Vector", "Point2", "Point3"}) =>
          /\ ~fk.returned
          /\ fk.error = "NotImplementedError"

\* a two-link robot returned its poses for a th.Vector of joint angles, one of
\* them from a quaternion that was not of unit norm
UrdfPosesReturned ==
    /\ fk.model = "urdf"
    /\ fk.input.class = "Vector"
    /\ fk.returned
    /\ DOMAIN fk.mapping = {"base", "tip"}
    /\ fk.drm_out["tip"].quat = <<1, 2, 3, 4>>
    /\ fk.mapping["tip"].quaternion = [num |-> <<4, 1, 2, 3>>, norm_squared |-> 30]

====
